---- MODULE Spec2Model ----
(***************************************************************************)
(* Model of the deployment form (client, DeploymentForm) and of the       *)
(* /api/deploy route (server, POST).  Strings are TLA+ strings; the        *)
(* string functions of the source (includes, trim, startsWith, the        *)
(* regular expressions) are computed character by character.              *)
(***************************************************************************)
EXTENDS Integers, Sequences, FiniteSets, TLC

VARIABLES
    formData,          \* client: useState<FormData>
    errors,            \* client: useState<FormErrors>, a partial map field -> message
    isSubmitting,      \* client: useState(false)
    submitStatus,      \* client: "idle" | "success" | "error"
    statusMessage,     \* client: useState("")
    deploymentResult,  \* client: DeploymentResult | null
    inflight,          \* client: bodies of the fetch('/api/deploy') calls not yet settled
    timers,            \* client: number of pending setTimeout(reset, 10000)
    swal,              \* client: title of the last Swal.fire dialog
    body,              \* server: the parsed request body
    pc,                \* server: position of POST in its sequence of awaits
    calls,             \* server: external calls issued for this request, in order
    outcomes,          \* server: how each settled call ended, in order
    deployment,        \* server: JSON of the create-deployment response
    domainResult,      \* server: let domainResult
    envVarsResult,     \* server: let envVarsResult
    response           \* server: the NextResponse returned

cvars == <<formData, errors, isSubmitting, submitStatus, statusMessage,
           deploymentResult, inflight, timers, swal>>
svars == <<body, pc, calls, outcomes, deployment, domainResult, envVarsResult, response>>
vars == <<formData, errors, isSubmitting, submitStatus, statusMessage,
          deploymentResult, inflight, timers, swal,
          body, pc, calls, outcomes, deployment, domainResult, envVarsResult, response>>

\* ------------------------------------------------------------------ bounds
MaxEnvVars == 1
MaxTimers == 1
MaxInflight == 2
MaxBodyEnvVars == 2
MaxDeviations == 2
MaxFormEnvVars == 2

\* ------------------------------------------------------ string primitives
Null == [null |-> TRUE]

\* the characters i..j of the string s, clipped to the string like s.slice
Slice(s, i, j) ==
    LET lo == IF i < 1 THEN 1 ELSE i
        hi == IF j > Len(s) THEN Len(s) ELSE j
    IN  IF lo > hi THEN "" ELSE SubSeq(s, lo, hi)

CharAt(s, i) == Slice(s, i, i)

Includes(s, sub) ==
    \E i \in 1..(Len(s) - Len(sub) + 1) : Slice(s, i, i + Len(sub) - 1) = sub

StartsWith(s, p) == Len(s) >= Len(p) /\ Slice(s, 1, Len(p)) = p

EndsWith(s, p) == Len(s) >= Len(p) /\ Slice(s, Len(s) - Len(p) + 1, Len(s)) = p

WhiteSpace == {" ", "\t", "\n", "\r"}

RECURSIVE TrimStart(_)
TrimStart(s) ==
    IF Len(s) > 0 /\ CharAt(s, 1) \in WhiteSpace
    THEN TrimStart(Slice(s, 2, Len(s)))
    ELSE s

RECURSIVE TrimEnd(_)
TrimEnd(s) ==
    IF Len(s) > 0 /\ CharAt(s, Len(s)) \in WhiteSpace
    THEN TrimEnd(Slice(s, 1, Len(s) - 1))
    ELSE s

\* nothing is trimmed
NoTrim(s) == s

Trim(s) == TrimEnd(TrimStart(s))

Lower == {"a","b","c","d","e","f","g","h","i","j","k","l","m",
          "n","o","p","q","r","s","t","u","v","w","x","y","z"}
Upper == {"A","B","C","D","E","F","G","H","I","J","K","L","M",
          "N","O","P","Q","R","S","T","U","V","W","X","Y","Z"}
Digit == {"0","1","2","3","4","5","6","7","8","9"}
AlNum == Lower \cup Upper \cup Digit

AllIn(s, class) == \A i \in 1..Len(s) : CharAt(s, i) \in class

NoSlash(s) == \A i \in 1..Len(s) : CharAt(s, i) # "/"

\* [^\/]+(?:\.git)?$ applied to the whole of s
MatchRepoTail(s) ==
    \/ Len(s) > 0 /\ NoSlash(s)
    \/ /\ EndsWith(s, ".git")
       /\ Len(s) > 4
       /\ NoSlash(Slice(s, 1, Len(s) - 4))

\* [^\/]+\/[^\/]+(?:\.git)?$ applied to the whole of s
MatchOwnerRepo(s) ==
    \E i \in 2..Len(s) :
        /\ CharAt(s, i) = "/"
        /\ NoSlash(Slice(s, 1, i - 1))
        /\ MatchRepoTail(Slice(s, i + 1, Len(s)))

\* /^https:\/\/github\.com\/[^\/]+\/[^\/]+(?:\.git)?$/.test(s)
ClientUrlRegex(s) ==
    /\ StartsWith(s, "https://github.com/")
    /\ MatchOwnerRepo(Slice(s, 20, Len(s)))

\* /^[a-zA-Z0-9-_]+$/.test(s)
ProjectNameRegex(s) == Len(s) > 0 /\ AllIn(s, AlNum \cup {"-", "_"})

\* /^[a-zA-Z0-9][a-zA-Z0-9-]*[a-zA-Z0-9]*$/.test(s)
DomainRegex(s) ==
    /\ Len(s) > 0
    /\ CharAt(s, 1) \in AlNum
    /\ \E j \in 1..Len(s) :
          /\ AllIn(Slice(s, 2, j), AlNum \cup {"-"})
          /\ AllIn(Slice(s, j + 1, Len(s)), AlNum)

\* ------------------------------------------------------------ client form
InitialForm ==
    [repositoryUrl |-> "", userName |-> "", password |-> "", domainName |-> "",
     projectName |-> "", branch |-> "main", target |-> "production",
     envVars |-> << >>]

TextFields == {"repositoryUrl", "userName", "password", "domainName",
               "projectName", "branch"}

ErrorFields == TextFields \cup {"envVars"}

NoError == ""

FieldError(f, k) ==
    CASE k = "repositoryUrl" ->
           IF Trim(f.repositoryUrl) = "" THEN "Repository URL is required"
           ELSE IF ~Includes(f.repositoryUrl, "github.com")
                THEN "Please enter a valid GitHub repository URL"
           ELSE IF ~ClientUrlRegex(f.repositoryUrl)
                THEN "Invalid format. Use: https://github.com/username/repository"
           ELSE NoError
      [] k = "userName" ->
           IF Trim(f.userName) = "" THEN "Username is required"
           ELSE IF Len(f.userName) < 3 THEN "Username must be at least 3 characters"
           ELSE NoError
      [] k = "password" ->
           IF f.password # "" /\ Len(f.password) < 6
           THEN "Password must be at least 6 characters"
           ELSE NoError
      [] k = "projectName" ->
           IF Trim(f.projectName) = "" THEN "Project name is required"
           ELSE IF ~ProjectNameRegex(f.projectName)
                THEN "Only letters, numbers, hyphens, and underscores allowed"
           ELSE NoError
      [] k = "branch" ->
           IF Trim(f.branch) = "" THEN "Branch is required" ELSE NoError
      [] k = "domainName" ->
           IF f.domainName # "" /\ ~DomainRegex(f.domainName)
           THEN "Invalid domain format (e.g., mydomain.com)"
           ELSE NoError
      [] k = "envVars" ->
           IF \E i \in 1..Len(f.envVars) :
                 Trim(f.envVars[i].key) = "" \/ Trim(f.envVars[i].value) = ""
           THEN "All environment variables must have both key and value"
           ELSE NoError

\* newErrors of validateForm: the map of the failing fields to their messages
validateForm(f) ==
    [k \in {x \in ErrorFields : FieldError(f, x) # NoError} |-> FieldError(f, k)]

isFormValid ==
    /\ formData.repositoryUrl # ""
    /\ formData.userName # ""
    /\ formData.projectName # ""
    /\ formData.branch # ""

\* ------------------------------------------------- server: request schema
\* A request body: the JSON object sent to POST /api/deploy.  present is the
\* set of keys the object carries; json = FALSE is a body request.json()
\* cannot parse.
Has(b, k) == k \in b.present

RECURSIVE WithoutDots(_)
WithoutDots(s) ==
    IF Len(s) = 0 THEN ""
    ELSE (IF CharAt(s, 1) = "." THEN "" ELSE CharAt(s, 1)) \o WithoutDots(Slice(s, 2, Len(s)))

\* the path joined without the dots
IssueUndottedPath(path, msg) == [field |-> WithoutDots(path), message |-> msg]

\* lines 188-191: one entry of details, field = err.path.join('.')
Issue(path, msg) == [field |-> path, message |-> msg]

SchemeChars == AlNum \cup {"+", "-", "."}

SpecialSchemes == {"http", "https", "ftp", "ws", "wss"}

HostEnd == {"/", "?", "#", "\\"}

RECURSIVE SkipSlashes(_)
SkipSlashes(s) ==
    IF Len(s) > 0 /\ CharAt(s, 1) \in {"/", "\\"}
    THEN SkipSlashes(Slice(s, 2, Len(s)))
    ELSE s

\* new URL(s) does not throw: s has a scheme, and a special scheme is
\* followed by a non-empty host without blanks
IsUrl(s) ==
    LET t == Trim(s) IN
    \E i \in 2..Len(t) :
        /\ CharAt(t, i) = ":"
        /\ CharAt(t, 1) \in Lower \cup Upper
        /\ AllIn(Slice(t, 1, i - 1), SchemeChars)
        /\ LET scheme == Slice(t, 1, i - 1)
               rest == SkipSlashes(Slice(t, i + 1, Len(t)))
           IN  scheme \in SpecialSchemes =>
                  /\ Len(rest) > 0
                  /\ CharAt(rest, 1) \notin HostEnd \cup WhiteSpace \cup {":", "@"}
                  /\ \A j \in 1..Len(rest) :
                        (\A h \in 1..j : CharAt(rest, h) \notin HostEnd)
                           => CharAt(rest, j) \notin WhiteSpace

IntToStr(i) == Slice("0123456789", i + 1, i + 1)

RECURSIVE EnvVarIssues(_, _)
EnvVarIssues(list, i) ==
    IF i > Len(list) THEN << >>
    ELSE (IF Len(list[i].key) < 1
          THEN <<Issue("envVars." \o IntToStr(i - 1) \o ".key",
                       "Environment variable key is required")>>
          ELSE << >>)
         \o (IF Len(list[i].value) < 1
             THEN <<Issue("envVars." \o IntToStr(i - 1) \o ".value",
                          "Environment variable value is required")>>
             ELSE << >>)
         \o EnvVarIssues(list, i + 1)

Targets == {"production", "preview"}

\* the issues of deploymentSchema.parse(b), in the order of the schema's keys
deploymentSchema(b) ==
    (IF ~Has(b, "repositoryUrl") THEN <<Issue("repositoryUrl", "Required")>>
     ELSE (IF IsUrl(b.repositoryUrl) THEN << >>
           ELSE <<Issue("repositoryUrl", "Invalid repository URL")>>)
          \o (IF Includes(b.repositoryUrl, "github.com") THEN << >>
              ELSE <<Issue("repositoryUrl", "Only GitHub repositories are supported")>>))
    \o (IF ~Has(b, "userName") THEN <<Issue("userName", "Required")>>
        ELSE IF Len(b.userName) < 1 THEN <<Issue("userName", "Username is required")>>
        ELSE << >>)
    \o (IF ~Has(b, "projectName") THEN <<Issue("projectName", "Required")>>
        ELSE IF Len(b.projectName) < 1
             THEN <<Issue("projectName", "Project name is required")>>
        ELSE << >>)
    \o (IF Has(b, "branch") /\ Len(b.branch) < 1
        THEN <<Issue("branch", "Branch is required")>>
        ELSE << >>)
    \o (IF Has(b, "target") /\ b.target \notin Targets
        THEN <<Issue("target", "Invalid enum value. Expected 'production' | 'preview', received '"
                               \o b.target \o "'")>>
        ELSE << >>)
    \o (IF Has(b, "envVars") THEN EnvVarIssues(b.envVars, 1) ELSE << >>)

\* validatedData: the parsed body with the schema's defaults applied
validatedData(b) ==
    [repositoryUrl |-> b.repositoryUrl,
     userName |-> b.userName,
     password |-> IF Has(b, "password") THEN <<b.password>> ELSE << >>,
     domainName |-> IF Has(b, "domainName") THEN b.domainName ELSE "",
     projectName |-> b.projectName,
     branch |-> IF Has(b, "branch") THEN b.branch ELSE "main",
     target |-> IF Has(b, "target") THEN b.target ELSE "production",
     envVars |-> IF Has(b, "envVars") THEN b.envVars ELSE << >>]

\* -------------------------------------------- server: extractGitHubInfo
\* the start of the leftmost match of /github\.com\/([^\/]+)\/([^\/]+)(?:\.git)?$/
\* in s, 0 when there is none
MatchesAt(s, i) ==
    /\ Slice(s, i, i + 10) = "github.com/"
    /\ MatchOwnerRepo(Slice(s, i + 11, Len(s)))

GitHubMatch(s) ==
    IF \E i \in 1..Len(s) : MatchesAt(s, i)
    THEN CHOOSE i \in 1..Len(s) :
            MatchesAt(s, i) /\ \A j \in 1..(i - 1) : ~MatchesAt(s, j)
    ELSE 0

IndexOf(s, sub) ==
    IF Includes(s, sub)
    THEN CHOOSE i \in 1..(Len(s) - Len(sub) + 1) :
            /\ Slice(s, i, i + Len(sub) - 1) = sub
            /\ \A j \in 1..(i - 1) : Slice(s, j, j + Len(sub) - 1) # sub
    ELSE 0

\* s.replace(pat, rep) with a string pattern: the first occurrence only
Replace(s, pat, rep) ==
    LET i == IndexOf(s, pat) IN
    IF i = 0 THEN s
    ELSE Slice(s, 1, i - 1) \o rep \o Slice(s, i + Len(pat), Len(s))

\* the result of extractGitHubInfo; ok = FALSE when it throws
extractGitHubInfo(repositoryUrl) ==
    LET m == GitHubMatch(repositoryUrl) IN
    IF m = 0 THEN [ok |-> FALSE, org |-> "", repo |-> ""]
    ELSE LET rest == Slice(repositoryUrl, m + 11, Len(repositoryUrl))
             slash == IndexOf(rest, "/")
         IN  [ok |-> TRUE,
              org |-> Slice(rest, 1, slash - 1),
              repo |-> Replace(Slice(rest, slash + 1, Len(rest)), ".git", "")]

\* ------------------------------------------------ server: the catch block
\* What POST can throw: a ZodError with its issues, or an Error with a
\* message.  hasStatus says whether the thrown object has a status property.
ZodError(issues) ==
    [zod |-> TRUE, hasStatus |-> FALSE, status |-> 0, message |-> "", issues |-> issues]

PlainError(msg) ==
    [zod |-> FALSE, hasStatus |-> FALSE, status |-> 0, message |-> msg, issues |-> << >>]

\* NextResponse.json without its status option
FailureStatusOk(st, err, msg) ==
    [status |-> 200, success |-> FALSE, error |-> err, message |-> msg, details |-> << >>]

Failure(st, err, msg) ==
    [status |-> st, success |-> FALSE, error |-> err, message |-> msg, details |-> << >>]

TokenMessage ==
    "Vercel token is invalid or expired. Please check your VERCEL_TOKEN environment variable."

\* the response built by the catch block of POST for the thrown object e
ErrorResponse(e) ==
    IF e.zod
    THEN [status |-> 400, success |-> FALSE, error |-> "Validation failed",
          message |-> "", details |-> e.issues]
    ELSE IF e.hasStatus /\ e.status = 401
    THEN Failure(401, "Authentication failed",
                 "Invalid Vercel token. Check your VERCEL_TOKEN environment variable.")
    ELSE IF e.hasStatus /\ e.status = 403
    THEN Failure(403, "Access denied", TokenMessage)
    ELSE IF e.hasStatus /\ e.status = 404
    THEN Failure(404, "Repository not found",
                 "Repository not found. Check the repository URL and permissions.")
    ELSE IF Includes(e.message, "forbidden") \/ Includes(e.message, "Not authorized")
    THEN Failure(403, "Vercel authentication failed", TokenMessage)
    ELSE IF Includes(e.message, "projectSettings") \/ Includes(e.message, "framework")
    THEN Failure(400, e.message,
                 "Project configuration error. Please check your repository setup.")
    ELSE IF Includes(e.message, "incorrect_git_source_info")
    THEN Failure(400, "Repository not found or branch does not exist",
                 "Please check your repository URL and branch name.")
    ELSE Failure(500, e.message,
                 "Deployment failed. Check your Vercel token and repository permissions.")

\* JSON.stringify of the platform's error body {error: {code, message}}
JsonStringify(errorData) ==
    "{\"error\":{\"code\":\"" \o errorData.code \o "\",\"message\":\""
        \o errorData.message \o "\"}}"

\* the object thrown for a create-deployment response that is not ok
CreateError(status, errorData) == PlainError(JsonStringify(errorData))

\* ---------------------------------------------- server: the external calls
\* process.env.VERCEL_TOKEN
VERCEL_TOKEN == "vercel-token"

\* the password of the form sent as the bearer credential
CreateCallWithPassword(v, info) ==
    [op |-> "createDeployment",
     bearer |-> IF v.password # << >> THEN v.password[1] ELSE VERCEL_TOKEN,
     name |-> v.projectName, target |-> v.target,
     gitSource |-> [type |-> "github", repo |-> info.repo, ref |-> v.branch,
                    org |-> info.org],
     alias |-> IF v.domainName # "" THEN <<v.domainName>> ELSE << >>]

CreateCall(v, info) ==
    [op |-> "createDeployment", bearer |-> VERCEL_TOKEN,
     name |-> v.projectName, target |-> v.target,
     gitSource |-> [type |-> "github", repo |-> info.repo, ref |-> v.branch,
                    org |-> info.org],
     alias |-> IF v.domainName # "" THEN <<v.domainName>> ELSE << >>]

DomainCall(v) ==
    [op |-> "addProjectDomain", bearer |-> VERCEL_TOKEN,
     idOrName |-> v.projectName, name |-> v.domainName]

EnvCall(v) ==
    [op |-> "createProjectEnv", bearer |-> VERCEL_TOKEN,
     idOrName |-> v.projectName, upsert |-> "true",
     requestBody |-> [i \in 1..Len(v.envVars) |->
                        [key |-> v.envVars[i].key, value |-> v.envVars[i].value,
                         target |-> <<"production">>, type |-> "plain"]]]

\* url ? (url.startsWith('http') ? url : `https://${url}`) : null, with an
\* absent or null string written << >> and a string s written <<s>>
NormalizeUrl(u) ==
    IF u = << >> \/ u = <<"">> THEN << >>
    ELSE IF StartsWith(u[1], "http") THEN u
    ELSE <<"https://" \o u[1]>>

SuccessResponse(dep, dom, env) ==
    [status |-> 200, success |-> TRUE,
     deployment |-> [id |-> dep.id, status |-> dep.status,
                     url |-> NormalizeUrl(dep.url), state |-> "BUILDING",
                     inspectorUrl |-> NormalizeUrl(dep.inspectorUrl)],
     domain |-> dom, envVars |-> env,
     message |-> "Deployment created successfully!"]

DomainAdded(name) == [name |-> name, status |-> "added", added |-> TRUE, error |-> ""]

DomainFailed(v, msg) ==
    [name |-> v.domainName, status |-> "error", added |-> FALSE, error |-> msg]

EnvVarsAdded(v) ==
    [added |-> TRUE, count |-> Len(v.envVars),
     variables |-> [i \in 1..Len(v.envVars) |-> v.envVars[i].key], error |-> ""]

EnvVarsFailed(msg) == [added |-> FALSE, count |-> 0, variables |-> << >>, error |-> msg]

\* ------------------------------------------------ server: request inputs
BodyFields == {"repositoryUrl", "userName", "password", "domainName",
               "projectName", "branch", "target", "envVars"}

BaseBody ==
    [json |-> TRUE,
     present |-> {"repositoryUrl", "userName", "projectName", "branch", "target"},
     repositoryUrl |-> "https://github.com/acme/widget", userName |-> "alice",
     password |-> "", domainName |-> "", projectName |-> "widget-prod",
     branch |-> "main", target |-> "production", envVars |-> << >>]

EnvEntries ==
    {[key |-> "API_KEY", value |-> "x"], [key |-> "DEBUG", value |-> "1"],
     [key |-> "", value |-> ""]}

RECURSIVE SeqsUpTo(_, _)
SeqsUpTo(S, n) ==
    IF n = 0 THEN {<< >>}
    ELSE LET shorter == SeqsUpTo(S, n - 1)
         IN  shorter \cup {Append(q, e) : q \in {x \in shorter : Len(x) = n - 1}, e \in S}

\* the settings of one key of the body: <<present, value>>
Settings(k) ==
    CASE k = "repositoryUrl" ->
           {<<TRUE, u>> : u \in {"https://github.com/acme/widget",
                                 "https://github.com/acme/widget.git",
                                 "https://github.com/acme/acme.github.io",
                                 "http://github.com/acme/widget",
                                 "https://gitlab.com/acme/widget",
                                 "github.com/acme/widget",
                                 "https://github.com/acme",
                                 "https://github.com/acme/widget/tree/main",
                                 ""}} \cup {<<FALSE, "">>}
      [] k = "userName" ->
           {<<TRUE, "alice">>, <<TRUE, "ab">>, <<TRUE, "">>, <<FALSE, "">>}
      [] k = "password" -> {<<FALSE, "">>, <<TRUE, "12345">>, <<TRUE, "secret1">>}
      [] k = "domainName" ->
           {<<FALSE, "">>, <<TRUE, "">>, <<TRUE, "widget.example.com">>,
            <<TRUE, "widget">>, <<TRUE, "-widget/">>}
      [] k = "projectName" ->
           {<<TRUE, "widget-prod">>, <<TRUE, "my app">>, <<TRUE, "">>, <<FALSE, "">>}
      [] k = "branch" ->
           {<<TRUE, "main">>, <<TRUE, " ">>, <<TRUE, "">>, <<FALSE, "">>}
      [] k = "target" ->
           {<<TRUE, "production">>, <<TRUE, "preview">>, <<TRUE, "staging">>, <<FALSE, "">>}
      [] k = "envVars" ->
           {<<TRUE, l>> : l \in SeqsUpTo(EnvEntries, MaxBodyEnvVars)}
              \cup {<<FALSE, << >> >>}

\* the ways to set one key of the body
Choices == UNION {{<<k, pv>> : pv \in Settings(k)} : k \in BodyFields}

SetKey(b, k, pv) ==
    [b EXCEPT ![k] = pv[2],
              !.present = IF pv[1] THEN @ \cup {k} ELSE @ \ {k}]

\* BaseBody with the keys set as devs says, the first of devs first
RECURSIVE Deviate(_, _, _)
Deviate(b, devs, i) ==
    IF i > Len(devs) THEN b
    ELSE Deviate(SetKey(b, devs[i][1], devs[i][2]), devs, i + 1)

Unparseable == [BaseBody EXCEPT !.json = FALSE, !.present = {}]

\* b is BaseBody with at most MaxDeviations keys set differently, or is a
\* body that does not parse
IsBody(b) ==
    \/ \E devs \in [1..MaxDeviations -> Choices] : b = Deviate(BaseBody, devs, 1)
    \/ b = Unparseable

\* what the platform can answer to create-deployment
Deployments ==
    {[id |-> "dpl_1", status |-> "QUEUED", url |-> <<"my-app.vercel.app">>,
      inspectorUrl |-> <<"vercel.com/acme/widget-prod/dpl_1">>],
     [id |-> "dpl_1", status |-> "QUEUED", url |-> <<"https://my-app.vercel.app">>,
      inspectorUrl |-> << >>],
     [id |-> "dpl_1", status |-> "QUEUED", url |-> <<"http-server.vercel.app">>,
      inspectorUrl |-> <<"vercel.com/acme/http-server/dpl_1">>]}

PlatformErrors ==
    {[status |-> 401, code |-> "unauthorized", message |-> "Authentication required"],
     [status |-> 403, code |-> "forbidden", message |-> "Not authorized"],
     [status |-> 404, code |-> "not_found", message |-> "Project not found"],
     [status |-> 400, code |-> "incorrect_git_source_info",
      message |-> "The provided GitHub repository can't be found"],
     [status |-> 400, code |-> "bad_request", message |-> "Invalid projectSettings"],
     [status |-> 500, code |-> "internal_server_error", message |-> "Unexpected error"]}

SdkErrors == {"Not authorized", "Domain already in use"}

\* ------------------------------------------------------- server: POST
ClientIdle ==
    /\ formData = InitialForm
    /\ errors = << >>
    /\ isSubmitting = FALSE
    /\ submitStatus = "idle"
    /\ statusMessage = ""
    /\ deploymentResult = Null
    /\ inflight = << >>
    /\ timers = 0
    /\ swal = "none"

ServerIdle ==
    /\ body = BaseBody
    /\ pc = "idle"
    /\ calls = << >>
    /\ outcomes = << >>
    /\ deployment = Null
    /\ domainResult = Null
    /\ envVarsResult = Null
    /\ response = Null

\* a request arrives: every request starts from fresh locals
ServerInit ==
    /\ ClientIdle
    /\ IsBody(body)
    /\ pc = "start"
    /\ calls = << >>
    /\ outcomes = << >>
    /\ deployment = Null
    /\ domainResult = Null
    /\ envVarsResult = Null
    /\ response = Null

\* how a call ended; status is the HTTP status of a create-deployment answer,
\* 0 when there is none
Settled(result, status) == [result |-> result, status |-> status]

\* return NextResponse.json(r)
Respond(r) == pc' = "done" /\ response' = r

\* the catch block: nothing more is called, the error response is returned
Catch(e) ==
    /\ Respond(ErrorResponse(e))
    /\ UNCHANGED <<body, calls, deployment, domainResult, envVarsResult>>

\* lines 116-179: the env-var stage and the success response
EnvStage(v, dep, dom) ==
    IF Len(v.envVars) > 0
    THEN /\ calls' = Append(calls, EnvCall(v))
         /\ pc' = "env"
         /\ UNCHANGED <<envVarsResult, response>>
    ELSE /\ Respond(SuccessResponse(dep, dom, Null))
         /\ UNCHANGED <<calls, envVarsResult>>

\* the domain and env-var calls issued together instead of one after the other
DomainStageConcurrent(v, dep) ==
    IF v.domainName # ""
    THEN /\ calls' = IF Len(v.envVars) > 0
                     THEN calls \o <<DomainCall(v), EnvCall(v)>>
                     ELSE Append(calls, DomainCall(v))
         /\ pc' = "domain"
         /\ UNCHANGED <<domainResult, envVarsResult, response>>
    ELSE /\ EnvStage(v, dep, Null)
         /\ UNCHANGED domainResult

\* lines 83-113, entered when create-deployment has answered ok
DomainStage(v, dep) ==
    IF v.domainName # ""
    THEN /\ calls' = Append(calls, DomainCall(v))
         /\ pc' = "domain"
         /\ UNCHANGED <<domainResult, envVarsResult, response>>
    ELSE /\ EnvStage(v, dep, Null)
         /\ UNCHANGED domainResult

\* lines 39-73: parse, validate, decompose the URL, issue create-deployment
Receive ==
    /\ pc = "start"
    /\ UNCHANGED cvars
    /\ IF ~body.json
       THEN Catch(PlainError("Unexpected token in JSON")) /\ UNCHANGED outcomes
       ELSE IF deploymentSchema(body) # << >>
       THEN Catch(ZodError(deploymentSchema(body))) /\ UNCHANGED outcomes
       ELSE IF ~extractGitHubInfo(body.repositoryUrl).ok
       THEN Catch(PlainError("Invalid GitHub repository URL")) /\ UNCHANGED outcomes
       ELSE /\ calls' = Append(calls, CreateCall(validatedData(body),
                                                 extractGitHubInfo(body.repositoryUrl)))
            /\ pc' = "create"
            /\ UNCHANGED <<body, outcomes, deployment, domainResult,
                           envVarsResult, response>>

\* the fetch of create-deployment rejects (no response)
CreateThrows ==
    /\ pc = "create"
    /\ UNCHANGED cvars
    /\ outcomes' = Append(outcomes, Settled("error", 0))
    /\ Catch(PlainError("fetch failed"))

\* the answer that is not ok is not thrown: the handler goes on with it
CreateNotOkContinues(err) ==
    /\ pc = "create"
    /\ UNCHANGED <<cvars, body>>
    /\ outcomes' = Append(outcomes, Settled("error", err.status))
    /\ deployment' = [id |-> "", status |-> "", url |-> << >>, inspectorUrl |-> << >>]
    /\ DomainStage(validatedData(body), deployment')

\* lines 75-78: create-deployment answers with a status that is not ok
CreateNotOk(err) ==
    /\ pc = "create"
    /\ UNCHANGED cvars
    /\ outcomes' = Append(outcomes, Settled("error", err.status))
    /\ Catch(CreateError(err.status, [code |-> err.code, message |-> err.message]))

\* deploymentResponse.json() throws on a body that is not JSON
CreateUnreadable ==
    /\ pc = "create"
    /\ UNCHANGED cvars
    /\ outcomes' = Append(outcomes, Settled("error", 200))
    /\ Catch(PlainError("Unexpected end of JSON input"))

\* line 80 onwards: create-deployment answers ok with the deployment dep
CreateOk(dep) ==
    /\ pc = "create"
    /\ UNCHANGED <<cvars, body>>
    /\ outcomes' = Append(outcomes, Settled("ok", 200))
    /\ deployment' = dep
    /\ DomainStage(validatedData(body), dep)

\* lines 97-103: addProjectDomain resolves
DomainOk ==
    /\ pc = "domain"
    /\ UNCHANGED <<cvars, body, deployment>>
    /\ outcomes' = Append(outcomes, Settled("ok", 0))
    /\ domainResult' = DomainAdded(validatedData(body).domainName)
    /\ EnvStage(validatedData(body), deployment, domainResult')

\* addProjectDomain throws and nothing catches it before the outer catch
DomainThrowsFatal(msg) ==
    /\ pc = "domain"
    /\ UNCHANGED cvars
    /\ outcomes' = Append(outcomes, Settled("error", 0))
    /\ Catch(PlainError(msg))

\* lines 104-112: addProjectDomain throws
DomainThrows(msg) ==
    /\ pc = "domain"
    /\ UNCHANGED <<cvars, body, deployment>>
    /\ outcomes' = Append(outcomes, Settled("error", 0))
    /\ domainResult' = DomainFailed(validatedData(body), msg)
    /\ EnvStage(validatedData(body), deployment, domainResult')

\* lines 134-140 and 151-179: createProjectEnv resolves
EnvOk ==
    /\ pc = "env"
    /\ UNCHANGED <<cvars, body, calls, deployment, domainResult>>
    /\ outcomes' = Append(outcomes, Settled("ok", 0))
    /\ envVarsResult' = EnvVarsAdded(validatedData(body))
    /\ Respond(SuccessResponse(deployment, domainResult, envVarsResult'))

\* createProjectEnv throws and nothing catches it before the outer catch
EnvThrowsFatal(msg) ==
    /\ pc = "env"
    /\ UNCHANGED cvars
    /\ outcomes' = Append(outcomes, Settled("error", 0))
    /\ Catch(PlainError(msg))

\* lines 141-148 and 151-179: createProjectEnv throws
EnvThrows(msg) ==
    /\ pc = "env"
    /\ UNCHANGED <<cvars, body, calls, deployment, domainResult>>
    /\ outcomes' = Append(outcomes, Settled("error", 0))
    /\ envVarsResult' = EnvVarsFailed(msg)
    /\ Respond(SuccessResponse(deployment, domainResult, envVarsResult'))

ServerNext ==
    \/ Receive
    \/ CreateThrows
    \/ \E err \in PlatformErrors : CreateNotOk(err)
    \/ CreateUnreadable
    \/ \E dep \in Deployments : CreateOk(dep)
    \/ DomainOk
    \/ \E msg \in SdkErrors : DomainThrows(msg)
    \/ EnvOk
    \/ \E msg \in SdkErrors : EnvThrows(msg)

ServerSpec == ServerInit /\ [][ServerNext]_vars

\* ------------------------------------------------ client: DeploymentForm
\* what the user can type into each text field
FieldValues(field) ==
    CASE field = "repositoryUrl" ->
           {"", "https://github.com/acme/widget"}
      [] field = "userName" -> {"", "alice", "ab"}
      [] field = "password" -> {"", "secret1"}
      [] field = "domainName" -> {"", "widget"}
      [] field = "projectName" -> {"", "widget-prod"}
      [] field = "branch" -> {"main", ""}

EnvKeys == {"", "API_KEY"}

EnvValues == {"", "x"}

\* JSON.stringify(formData) as the server's request.json() reads it
FormBody(f) ==
    [json |-> TRUE, present |-> BodyFields,
     repositoryUrl |-> f.repositoryUrl, userName |-> f.userName,
     password |-> f.password, domainName |-> f.domainName,
     projectName |-> f.projectName, branch |-> f.branch, target |-> f.target,
     envVars |-> f.envVars]

\* the responses of POST /api/deploy the form can receive
Responses ==
    {SuccessResponse(d, Null, Null) : d \in Deployments}
    \cup {ErrorResponse(CreateError(e.status, e)) : e \in PlatformErrors}
    \cup {ErrorResponse(ZodError(<<Issue("repositoryUrl", "Invalid repository URL"),
                                   Issue("envVars.0.key",
                                         "Environment variable key is required")>>))}

Init == ClientIdle /\ ServerIdle

RemoveAt(q, i) == [j \in 1..(Len(q) - 1) |-> IF j < i THEN q[j] ELSE q[j + 1]]

\* lines 70-78; the Add Variable button is never disabled
addEnvVar ==
    /\ Len(formData.envVars) < MaxEnvVars
    /\ formData' = [formData EXCEPT !.envVars = Append(@, [key |-> "", value |-> ""])]
    /\ UNCHANGED <<errors, isSubmitting, submitStatus, statusMessage,
                   deploymentResult, inflight, timers, swal, svars>>

\* lines 80-85; the Remove button is disabled while submitting
removeEnvVar(index) ==
    /\ ~isSubmitting
    /\ index \in 1..Len(formData.envVars)
    /\ formData' = [formData EXCEPT !.envVars = RemoveAt(@, index)]
    /\ UNCHANGED <<errors, isSubmitting, submitStatus, statusMessage,
                   deploymentResult, inflight, timers, swal, svars>>

\* lines 87-94; the row inputs are disabled while submitting
updateEnvVar(index, field, value) ==
    /\ ~isSubmitting
    /\ index \in 1..Len(formData.envVars)
    /\ formData' = [formData EXCEPT !.envVars[index][field] = value]
    /\ UNCHANGED <<errors, isSubmitting, submitStatus, statusMessage,
                   deploymentResult, inflight, timers, swal, svars>>

\* lines 150-160; the inputs are disabled while submitting
handleInputChange(field, value) ==
    /\ ~isSubmitting
    /\ formData' = [formData EXCEPT ![field] = value]
    /\ errors' = IF field \in DOMAIN errors /\ errors[field] # ""
                 THEN [k \in DOMAIN errors \ {field} |-> errors[k]]
                 ELSE errors
    /\ UNCHANGED <<isSubmitting, submitStatus, statusMessage,
                   deploymentResult, inflight, timers, swal, svars>>

\* the submit button without its isSubmitting condition
SubmitEnabledWhileBusy == isFormValid

\* line 641: the submit button is enabled
SubmitEnabled == isFormValid /\ ~isSubmitting

\* handleSubmit without the early return of lines 165-169
handleSubmitNoReturn ==
    /\ SubmitEnabled
    /\ Len(inflight) < MaxInflight
    /\ errors' = validateForm(formData)
    /\ isSubmitting' = TRUE
    /\ submitStatus' = "idle"
    /\ statusMessage' = ""
    /\ deploymentResult' = Null
    /\ inflight' = Append(inflight, FormBody(formData))
    /\ UNCHANGED <<formData, timers, swal, svars>>

\* handleSubmit without setDeploymentResult(null) of line 174
handleSubmitKeepsResult ==
    /\ SubmitEnabled
    /\ Len(inflight) < MaxInflight
    /\ errors' = validateForm(formData)
    /\ IF DOMAIN validateForm(formData) # {}
       THEN /\ submitStatus' = "error"
            /\ statusMessage' = "Please fix the errors above and try again."
            /\ UNCHANGED <<isSubmitting, inflight>>
       ELSE /\ isSubmitting' = TRUE
            /\ submitStatus' = "idle"
            /\ statusMessage' = ""
            /\ inflight' = Append(inflight, FormBody(formData))
    /\ UNCHANGED <<formData, deploymentResult, timers, swal, svars>>

\* handleSubmit adding the validator's errors to the ones already there
handleSubmitKeepsErrors ==
    /\ SubmitEnabled
    /\ Len(inflight) < MaxInflight
    /\ errors' = [k \in DOMAIN errors \cup DOMAIN validateForm(formData) |->
                    IF k \in DOMAIN validateForm(formData)
                    THEN validateForm(formData)[k] ELSE errors[k]]
    /\ IF DOMAIN validateForm(formData) # {}
       THEN /\ submitStatus' = "error"
            /\ statusMessage' = "Please fix the errors above and try again."
            /\ UNCHANGED <<isSubmitting, deploymentResult, inflight>>
       ELSE /\ isSubmitting' = TRUE
            /\ submitStatus' = "idle"
            /\ statusMessage' = ""
            /\ deploymentResult' = Null
            /\ inflight' = Append(inflight, FormBody(formData))
    /\ UNCHANGED <<formData, timers, swal, svars>>

\* lines 162-183: validate, then issue the fetch of /api/deploy
handleSubmit ==
    /\ SubmitEnabled
    /\ Len(inflight) < MaxInflight
    /\ errors' = validateForm(formData)
    /\ IF DOMAIN validateForm(formData) # {}
       THEN /\ submitStatus' = "error"
            /\ statusMessage' = "Please fix the errors above and try again."
            /\ UNCHANGED <<isSubmitting, deploymentResult, inflight>>
       ELSE /\ isSubmitting' = TRUE
            /\ submitStatus' = "idle"
            /\ statusMessage' = ""
            /\ deploymentResult' = Null
            /\ inflight' = Append(inflight, FormBody(formData))
    /\ UNCHANGED <<formData, timers, swal, svars>>

\* lines 283-289: the details of a validation failure become the field errors
DetailsToErrors(details) ==
    LET last(k) == CHOOSE i \in 1..Len(details) :
                      /\ details[i].field = k
                      /\ \A j \in (i + 1)..Len(details) : details[j].field # k
    IN  [k \in {details[i].field : i \in 1..Len(details)} |-> details[last(k)].message]

\* lines 292-307: the title of the failure dialog
DialogTitle(result) ==
    LET errorMessage ==
            IF result.error # "" THEN result.error
            ELSE IF result.message # "" THEN result.message
            ELSE "Deployment failed. Please check your credentials and try again."
    IN  IF \/ Includes(errorMessage, "Vercel token")
           \/ Includes(errorMessage, "invalid")
           \/ Includes(errorMessage, "expired")
        THEN "Authentication Error"
        ELSE IF Includes(errorMessage, "Repository not found")
        THEN "Repository Error"
        ELSE IF Includes(errorMessage, "projectSettings")
                \/ Includes(errorMessage, "framework")
        THEN "Project Configuration Error"
        ELSE "Deployment Failed"

\* lines 185-326 and 346-348: the response of call i arrives and parses
handleResponse(i, result) ==
    /\ i \in 1..Len(inflight)
    /\ inflight' = RemoveAt(inflight, i)
    /\ isSubmitting' = FALSE
    /\ IF result.success
       THEN /\ timers < MaxTimers
            /\ submitStatus' = "success"
            /\ deploymentResult' = result.deployment
            /\ swal' = "Deployment Created!"
            /\ timers' = timers + 1
            /\ UNCHANGED <<errors, statusMessage>>
       ELSE /\ submitStatus' = "error"
            /\ IF result.details # << >>
               THEN /\ errors' = DetailsToErrors(result.details)
                    /\ statusMessage' = ""
                    /\ UNCHANGED swal
               ELSE /\ swal' = DialogTitle(result)
                    /\ UNCHANGED <<errors, statusMessage>>
            /\ UNCHANGED <<deploymentResult, timers>>
    /\ UNCHANGED <<formData, svars>>

\* the catch block treats the failure like the end of a success: form cleared
handleNetworkErrorResets(i) ==
    /\ i \in 1..Len(inflight)
    /\ inflight' = RemoveAt(inflight, i)
    /\ isSubmitting' = FALSE
    /\ submitStatus' = "error"
    /\ swal' = "Network Error"
    /\ formData' = InitialForm
    /\ UNCHANGED <<errors, statusMessage, deploymentResult, timers, svars>>

\* the failed call is issued again
handleNetworkErrorRetries(i) ==
    /\ i \in 1..Len(inflight)
    /\ submitStatus' = "error"
    /\ swal' = "Network Error"
    /\ UNCHANGED <<formData, errors, isSubmitting, inflight, statusMessage,
                   deploymentResult, timers, svars>>

\* lines 327-348: fetch rejects, or response.json() throws
handleNetworkError(i) ==
    /\ i \in 1..Len(inflight)
    /\ inflight' = RemoveAt(inflight, i)
    /\ isSubmitting' = FALSE
    /\ submitStatus' = "error"
    /\ swal' = "Network Error"
    /\ UNCHANGED <<formData, errors, statusMessage, deploymentResult, timers, svars>>

\* the timer fires and leaves the form as the user filled it
resetTimerKeepsForm ==
    /\ timers > 0
    /\ timers' = timers - 1
    /\ submitStatus' = "idle"
    /\ statusMessage' = ""
    /\ deploymentResult' = Null
    /\ UNCHANGED <<formData, errors, isSubmitting, inflight, swal, svars>>

\* lines 266-280: a reset timer fires
resetTimer ==
    /\ timers > 0
    /\ timers' = timers - 1
    /\ formData' = InitialForm
    /\ submitStatus' = "idle"
    /\ statusMessage' = ""
    /\ deploymentResult' = Null
    /\ UNCHANGED <<errors, isSubmitting, inflight, swal, svars>>

Next ==
    \/ addEnvVar
    \/ \E index \in 1..MaxEnvVars : removeEnvVar(index)
    \/ \E index \in 1..MaxEnvVars : \E v \in EnvKeys : updateEnvVar(index, "key", v)
    \/ \E index \in 1..MaxEnvVars : \E v \in EnvValues : updateEnvVar(index, "value", v)
    \/ \E field \in TextFields : \E v \in FieldValues(field) : handleInputChange(field, v)
    \/ handleSubmit
    \/ \E i \in 1..MaxInflight : \E result \in Responses : handleResponse(i, result)
    \/ \E i \in 1..MaxInflight : handleNetworkError(i)
    \/ resetTimer

Spec == Init /\ [][Next]_vars

\* the form used without variable rows
LiveNext ==
    \/ \E field \in TextFields : \E v \in FieldValues(field) : handleInputChange(field, v)
    \/ handleSubmit
    \/ \E i \in 1..MaxInflight : \E result \in Responses : handleResponse(i, result)
    \/ \E i \in 1..MaxInflight : handleNetworkError(i)
    \/ resetTimer

\* a timer set by setTimeout fires once its delay has passed
LiveSpec == Init /\ [][LiveNext]_vars /\ WF_vars(resetTimer)

\* lines 176-185 and 327: the awaited fetch and response.json() settle,
\* with a parsed response or by throwing
Settle ==
    \E i \in 1..MaxInflight :
        \/ \E result \in Responses : handleResponse(i, result)
        \/ handleNetworkError(i)

\* the form on a transport whose calls all settle
SettleSpec ==
    Init /\ [][LiveNext]_vars /\ WF_vars(resetTimer) /\ WF_vars(Settle)

\* --------------------------------------------- client: validateForm alone
\* the forms validateForm is applied to: every combination of these values
FormValues(field) ==
    CASE field = "repositoryUrl" ->
           {"", "https://github.com/acme/widget.git",
            "https://gitlab.com/acme/widget", "https://github.com/acme/widget/tree/main"}
      [] field = "userName" -> {"   ", "ab", "alice"}
      [] field = "password" -> {"", "12345", "secret1"}
      [] field = "domainName" ->
           {"", "widget", "my-widget", "widget-", "-widget", "widget.example.com",
            "https://widget"}
      [] field = "projectName" -> {"my app", "widget-prod"}
      [] field = "branch" -> {"main", " "}

FormEnvEntries ==
    {[key |-> "API_KEY", value |-> "x"], [key |-> "", value |-> "y"],
     [key |-> "DEBUG", value |-> " "]}

Forms ==
    [repositoryUrl : FormValues("repositoryUrl"), userName : FormValues("userName"),
     password : FormValues("password"), domainName : FormValues("domainName"),
     projectName : FormValues("projectName"), branch : FormValues("branch"),
     target : {"production"}, envVars : SeqsUpTo(FormEnvEntries, MaxFormEnvVars)]

FormInit ==
    /\ formData \in Forms
    /\ errors = << >>
    /\ isSubmitting = FALSE
    /\ submitStatus = "idle"
    /\ statusMessage = ""
    /\ deploymentResult = Null
    /\ inflight = << >>
    /\ timers = 0
    /\ swal = "none"
    /\ ServerIdle

\* lines 96-148: validateForm is called, setErrors(newErrors) included
Validate ==
    /\ errors' = validateForm(formData)
    /\ UNCHANGED <<formData, isSubmitting, submitStatus, statusMessage,
                   deploymentResult, inflight, timers, swal, svars>>

FormNext ==
    \/ Validate
    \/ handleSubmit

FormSpec == FormInit /\ [][FormNext]_vars

\* ------------------------------------------------------------ properties
\* C1: a submit attempt on a form for which the client validator reports an
\* error issues no call to /api/deploy and does not set isSubmitting: a step
\* that issues a call or sets isSubmitting starts from a form without errors.
C1_RejectedSubmitIssuesNoCall ==
    [][(Len(inflight') > Len(inflight) \/ (isSubmitting' /\ ~isSubmitting))
         => DOMAIN validateForm(formData) = {}]_vars

\* a submit attempt has just been rejected by the validator
C1_Witness ==
    /\ statusMessage = "Please fix the errors above and try again."
    /\ submitStatus = "error"
    /\ DOMAIN errors # {}
    /\ DOMAIN validateForm(formData) # {}
    /\ ~isSubmitting
    /\ inflight = << >>

\* C2: at most one call to /api/deploy is outstanding, and it is outstanding
\* exactly while isSubmitting is set, so a new one starts only after the
\* previous one has settled.
C2_SingleInflight ==
    /\ Len(inflight) <= 1
    /\ isSubmitting <=> (Len(inflight) = 1)

\* a second submission is outstanding after an earlier one was answered
C2_Witness ==
    /\ Len(inflight) = 1
    /\ isSubmitting
    /\ swal # "none"
    /\ timers > 0

\* the request of the server has passed validation and create-deployment
\* has been answered
CreateSettled == Len(outcomes) >= 1

CreateFailed == CreateSettled /\ outcomes[1].result = "error"

CallOps == [i \in 1..Len(calls) |-> calls[i].op]

\* C3: with a domain name supplied, create-deployment succeeding and
\* add-domain failing, the response is a success with the deployment fields
\* and a domain outcome with added = FALSE and a non-empty error.
C3_DomainFailureIsPartialSuccess ==
    (/\ pc = "done"
     /\ Len(outcomes) >= 2
     /\ calls[2].op = "addProjectDomain"
     /\ outcomes[1].result = "ok"
     /\ outcomes[2].result = "error")
    => /\ response.success = TRUE
       /\ response.status = 200
       /\ response.deployment.id = deployment.id
       /\ response.deployment.status = deployment.status
       /\ response.deployment.url # << >>
       /\ response.domain # Null
       /\ response.domain.added = FALSE
       /\ response.domain.error # ""
       /\ response.domain.name = body.domainName

\* a request with a domain name has ended after add-domain failed
C3_Witness ==
    /\ pc = "done"
    /\ body.domainName = "widget.example.com"
    /\ CallOps = <<"createDeployment", "addProjectDomain">>
    /\ outcomes[2].result = "error"
    /\ response.success

\* C4: when the env-var upsert fails after a successful create-deployment
\* the response is still a success, with envVars.added = FALSE and an error;
\* when it succeeds envVars.added = TRUE, count is the number of supplied
\* variables and variables lists their keys in the supplied order.
C4_EnvVarsOutcome ==
    (/\ pc = "done"
     /\ Len(calls) >= 2
     /\ Len(outcomes) = Len(calls)
     /\ calls[Len(calls)].op = "createProjectEnv")
    => /\ response.success = TRUE
       /\ response.status = 200
       /\ response.envVars # Null
       /\ outcomes[Len(outcomes)].result = "error"
            => /\ response.envVars.added = FALSE
               /\ response.envVars.error # ""
       /\ outcomes[Len(outcomes)].result = "ok"
            => /\ response.envVars.added = TRUE
               /\ response.envVars.count = Len(body.envVars)
               /\ Len(response.envVars.variables) = Len(body.envVars)
               /\ \A i \in 1..Len(body.envVars) :
                     response.envVars.variables[i] = body.envVars[i].key

\* a request with two variables has ended after the upsert failed
C4_Witness ==
    /\ pc = "done"
    /\ Len(body.envVars) = 2
    /\ body.envVars[1].key # body.envVars[2].key
    /\ Len(calls) >= 2
    /\ Len(outcomes) = Len(calls)
    /\ calls[Len(calls)].op = "createProjectEnv"
    /\ outcomes[Len(outcomes)].result = "error"
    /\ response.success
    /\ response.envVars.added = FALSE

\* C5: once create-deployment has failed the request has ended with a
\* failure response and create-deployment is the only call ever issued.
C5_CreateFailureShortCircuits ==
    CreateFailed
    => /\ pc = "done"
       /\ response.success = FALSE
       /\ CallOps = <<"createDeployment">>

\* create-deployment has failed for a request with a domain name and variables
C5_Witness ==
    /\ CreateFailed
    /\ outcomes[1].status \in {401, 403, 404}
    /\ body.domainName # ""
    /\ Has(body, "envVars")
    /\ Len(body.envVars) > 0

\* C6: an upstream 401 or 403 of create-deployment gives a 401 or 403
\* response whose message names VERCEL_TOKEN, and an upstream 404 gives a
\* 404 repository-not-found response.
C6_UpstreamStatusClassified ==
    (pc = "done" /\ CreateFailed)
    => /\ outcomes[1].status \in {401, 403}
            => /\ response.status \in {401, 403}
               /\ Includes(response.message, "VERCEL_TOKEN")
       /\ outcomes[1].status = 404
            => /\ response.status = 404
               /\ Includes(response.error, "Repository not found")

\* the owner and the repository name of https://github.com/<owner>/<repo>[.git]
UrlPath(url) == Slice(url, Len("https://github.com/") + 1, Len(url))

UrlOwner(url) == Slice(UrlPath(url), 1, IndexOf(UrlPath(url), "/") - 1)

UrlRepo(url) ==
    LET name == Slice(UrlPath(url), IndexOf(UrlPath(url), "/") + 1, Len(UrlPath(url)))
    IN  IF EndsWith(name, ".git") THEN Slice(name, 1, Len(name) - 4) ELSE name

\* the form that serializes to the body b
AsForm(b) ==
    [repositoryUrl |-> b.repositoryUrl, userName |-> b.userName,
     password |-> b.password, domainName |-> b.domainName,
     projectName |-> b.projectName, branch |-> b.branch,
     target |-> b.target, envVars |-> b.envVars]

\* a body that passes the schema of the server and the rules of the form
ValidRequest(b) ==
    /\ b.json
    /\ deploymentSchema(b) = << >>
    /\ DOMAIN validateForm(AsForm(b)) = {}

\* C7: a valid request without domain name and without variables issues
\* exactly one call, create-deployment, with the project name, the target
\* and the git source {github, owner, repo, ref = branch} of the URL.
C7_SingleCreateCall ==
    (/\ pc # "start"
     /\ ValidRequest(body)
     /\ validatedData(body).domainName = ""
     /\ validatedData(body).envVars = << >>)
    => /\ Len(calls) = 1
       /\ calls[1].op = "createDeployment"
       /\ calls[1].name = body.projectName
       /\ calls[1].target = (IF Has(body, "target") THEN body.target ELSE "production")
       /\ calls[1].gitSource = [type |-> "github",
                                org |-> UrlOwner(body.repositoryUrl),
                                repo |-> UrlRepo(body.repositoryUrl),
                                ref |-> IF Has(body, "branch") THEN body.branch ELSE "main"]

OpRank(op) ==
    CASE op = "createDeployment" -> 1
      [] op = "addProjectDomain" -> 2
      [] op = "createProjectEnv" -> 3

\* C8: the calls of one request are issued in the order create-deployment,
\* add-domain, env-var upsert, each at most once, add-domain only with a
\* domain name, the upsert only with a non-empty list, and a call is issued
\* only when every earlier call has settled.
C8_CallOrder ==
    /\ \A i, j \in 1..Len(calls) : i < j => OpRank(calls[i].op) < OpRank(calls[j].op)
    /\ Len(calls) > 0 => calls[1].op = "createDeployment"
    /\ \A i \in 1..Len(calls) :
          /\ calls[i].op = "addProjectDomain"
                => Has(body, "domainName") /\ body.domainName # ""
          /\ calls[i].op = "createProjectEnv"
                => Has(body, "envVars") /\ Len(body.envVars) > 0
    /\ Len(outcomes) <= Len(calls)
    /\ Len(calls) - Len(outcomes) <= 1
    /\ (Len(calls) - Len(outcomes) = 1) <=> (pc \in {"create", "domain", "env"})

\* a request has ended after all three calls
C8_Witness ==
    /\ pc = "done"
    /\ CallOps = <<"createDeployment", "addProjectDomain", "createProjectEnv">>
    /\ Len(outcomes) = 3

\* C9: every body the client validator rejects is rejected by the server
\* with a validation failure and without an external call.
C9_ServerEnforcesClientContract ==
    (/\ pc # "start"
     /\ body.json
     /\ {"repositoryUrl", "userName", "projectName", "branch"} \subseteq body.present
     /\ DOMAIN validateForm(AsForm(body)) # {})
    => /\ pc = "done"
       /\ response.status = 400
       /\ response.error = "Validation failed"
       /\ calls = << >>

When(cond, v) == IF cond THEN {v} ELSE {}

\* the constraints of the schema that b violates, as <<dotted path, rule>>
Violations(b) ==
    {<<k, "required">> : k \in {"repositoryUrl", "userName", "projectName"} \ b.present}
    \cup When(Has(b, "repositoryUrl") /\ ~IsUrl(b.repositoryUrl),
              <<"repositoryUrl", "url">>)
    \cup When(Has(b, "repositoryUrl") /\ ~Includes(b.repositoryUrl, "github.com"),
              <<"repositoryUrl", "github">>)
    \cup {<<k, "min">> : k \in {x \in {"userName", "projectName", "branch"} :
                                   Has(b, x) /\ b[x] = ""}}
    \cup When(Has(b, "target") /\ b.target \notin Targets, <<"target", "enum">>)
    \cup {<<"envVars." \o IntToStr(i - 1) \o ".key", "min">> :
             i \in {x \in 1..Len(b.envVars) : Has(b, "envVars") /\ b.envVars[x].key = ""}}
    \cup {<<"envVars." \o IntToStr(i - 1) \o ".value", "min">> :
             i \in {x \in 1..Len(b.envVars) : Has(b, "envVars") /\ b.envVars[x].value = ""}}

\* C10: a body that violates the schema is answered with status 400,
\* success FALSE, error "Validation failed" and details holding one entry per
\* violated constraint, its field being the dotted path of the offending
\* value, and no external call is issued.
C10_ValidationFailureResponse ==
    (pc # "start" /\ body.json /\ Violations(body) # {})
    => /\ pc = "done"
       /\ calls = << >>
       /\ response.status = 400
       /\ response.success = FALSE
       /\ response.error = "Validation failed"
       /\ Len(response.details) = Cardinality(Violations(body))
       /\ {response.details[i].field : i \in 1..Len(response.details)}
             = {v[1] : v \in Violations(body)}
       /\ \A i \in 1..Len(response.details) : response.details[i].message # ""
       /\ \A i, j \in 1..Len(response.details) :
             i # j => response.details[i] # response.details[j]

\* a body with a violation inside the variable list and another one elsewhere
C10_Witness ==
    /\ pc = "done"
    /\ response.status = 400
    /\ Len(response.details) >= 2
    /\ \E i \in 1..Len(response.details) : response.details[i].field = "envVars.0.key"
    /\ \E i \in 1..Len(response.details) : ~Includes(response.details[i].field, ".")

\* only white space, the empty string included
Blank(s) == AllIn(s, WhiteSpace)

\* https://github.com/<owner>/<repo>[.git] with owner and repo non-empty and
\* no further path segment
RepositoryUrlShape(url) ==
    LET path == Slice(url, Len("https://github.com/") + 1, Len(url))
        slashes == {i \in 1..Len(path) : CharAt(path, i) = "/"}
    IN  /\ Slice(url, 1, Len("https://github.com/")) = "https://github.com/"
        /\ Cardinality(slashes) = 1
        /\ slashes \cap {1, Len(path)} = {}

\* a bare hostname label: alphanumeric at both ends, hyphens only inside
HostnameLabel(s) ==
    /\ Len(s) > 0
    /\ CharAt(s, 1) \in AlNum
    /\ CharAt(s, Len(s)) \in AlNum
    /\ \A i \in 1..Len(s) : CharAt(s, i) \in AlNum \cup {"-"}

\* the form f violates the rule of the field k
RuleViolated(f, k) ==
    CASE k = "repositoryUrl" ->
           \/ Blank(f.repositoryUrl)
           \/ ~Includes(f.repositoryUrl, "github.com")
           \/ ~RepositoryUrlShape(f.repositoryUrl)
      [] k = "userName" -> Blank(f.userName) \/ Len(f.userName) < 3
      [] k = "password" -> f.password # "" /\ Len(f.password) < 6
      [] k = "projectName" ->
           \/ Blank(f.projectName)
           \/ \E i \in 1..Len(f.projectName) :
                 CharAt(f.projectName, i) \notin AlNum \cup {"-", "_"}
      [] k = "branch" -> Blank(f.branch)
      [] k = "domainName" -> f.domainName # "" /\ ~HostnameLabel(f.domainName)
      [] k = "envVars" ->
           \E i \in 1..Len(f.envVars) :
              Blank(f.envVars[i].key) \/ Blank(f.envVars[i].value)

\* C11: the error mapping validateForm sets has exactly the keys of the
\* fields whose rule the form violates: none for a well-formed form, the one
\* key for a single violation, all of them for several violations.
C11_ValidatorReportsEveryViolation ==
    [][DOMAIN errors' = {k \in ErrorFields : RuleViolated(formData, k)}]_vars

\* C12: an edit of a field that has an entry in the error mapping, the
\* variable list included, removes exactly that entry and leaves every other
\* entry and its message as it was.
C12_EditClearsExactlyThatError ==
    [][\A X \in ErrorFields :
          (/\ timers' = timers
           /\ X \in DOMAIN errors
           /\ formData'[X] # formData[X])
          => errors' = [k \in DOMAIN errors \ {X} |-> errors[k]]]_vars

\* a step starts a submission
Submits == Len(inflight') > Len(inflight) \/ (isSubmitting' /\ ~isSubmitting)

\* C13, empty meaning of length 0: an entry with an empty key or value gives the one
\* aggregate envVars error and no submission; a list whose entries all have a
\* non-empty key and value gives no envVars error.
C13_EmptyEntryFlagsList ==
    [][LET empty == \E i \in 1..Len(formData.envVars) :
                       formData.envVars[i].key = "" \/ formData.envVars[i].value = ""
       IN  /\ empty => /\ "envVars" \in DOMAIN errors'
                       /\ ~Submits
           /\ ~empty => "envVars" \notin DOMAIN errors']_vars

\* C13: an entry whose key or value is empty or only white space gives one
\* aggregate envVars error, no error per row, and no submission; a list
\* without such an entry, the empty list included, gives no envVars error.
C13_BlankEntryFlagsList ==
    [][LET blank == \E i \in 1..Len(formData.envVars) :
                       Blank(formData.envVars[i].key) \/ Blank(formData.envVars[i].value)
       IN  /\ blank => /\ "envVars" \in DOMAIN errors'
                       /\ errors'.envVars
                            = "All environment variables must have both key and value"
                       /\ DOMAIN errors' \subseteq ErrorFields
                       /\ ~Submits
           /\ ~blank => "envVars" \notin DOMAIN errors']_vars

\* the list API_KEY = x, "" = y has been rejected by a submit attempt
C13_Witness ==
    /\ formData.envVars = <<[key |-> "API_KEY", value |-> "x"], [key |-> "", value |-> "y"]>>
    /\ "envVars" \in DOMAIN errors
    /\ statusMessage = "Please fix the errors above and try again."
    /\ inflight = << >>
    /\ ~isSubmitting

\* the string u names its scheme
HasScheme(u) == Includes(u, "://")

\* create-deployment has answered ok and POST has returned the success response
Succeeded == pc = "done" /\ response.success /\ deployment # Null

\* C14: a deployment url without a scheme is returned as "https://" followed
\* by it, and one that begins with "https://" is returned unchanged.
C14_UrlNormalization ==
    (Succeeded /\ deployment.url # << >>)
    => /\ ~HasScheme(deployment.url[1])
            => response.deployment.url = <<"https://" \o deployment.url[1]>>
       /\ StartsWith(deployment.url[1], "https://")
            => response.deployment.url = deployment.url

\* C15: in a success response the url begins with "https://" and the
\* inspectorUrl has a scheme, whatever non-empty strings the platform returned.
C15_AbsoluteUrls ==
    Succeeded
    => /\ deployment.url \notin {<< >>, <<"">>}
            => /\ response.deployment.url # << >>
               /\ StartsWith(response.deployment.url[1], "https://")
       /\ deployment.inspectorUrl \notin {<< >>, <<"">>}
            => /\ response.deployment.inspectorUrl # << >>
               /\ HasScheme(response.deployment.inspectorUrl[1])

\* C16: validateForm reports a domainName error exactly for the non-empty
\* domain names that are not a bare hostname label (alphanumeric at both
\* ends, hyphens only inside, no scheme, no path); none for the empty one.
C16_DomainNameRule ==
    [][("domainName" \in DOMAIN errors')
          <=> (formData.domainName # "" /\ ~HostnameLabel(formData.domainName))]_vars

\* C17: a repository URL https://github.com/<owner>/<repo>[.git] is
\* decomposed into <owner> and <repo>, only a trailing ".git" being removed,
\* and create-deployment is called with them.
C17_ExtractOwnerAndRepo ==
    (/\ pc # "start"
     /\ Has(body, "repositoryUrl")
     /\ RepositoryUrlShape(body.repositoryUrl))
    => /\ extractGitHubInfo(body.repositoryUrl)
            = [ok |-> TRUE, org |-> UrlOwner(body.repositoryUrl),
               repo |-> UrlRepo(body.repositoryUrl)]
       /\ Len(calls) >= 1
            => /\ calls[1].gitSource.org = UrlOwner(body.repositoryUrl)
               /\ calls[1].gitSource.repo = UrlRepo(body.repositoryUrl)

\* the strings of the response r
ResponseStrings(r) ==
    {r.error, r.message}
    \cup {r.details[i].message : i \in 1..Len(r.details)}
    \cup {r.details[i].field : i \in 1..Len(r.details)}

\* the strings of the success response r that do not come from the platform
SuccessStrings(r) ==
    {r.message}
    \cup (IF r.domain = Null THEN {} ELSE {r.domain.name, r.domain.status})
    \cup (IF r.envVars = Null THEN {}
          ELSE {r.envVars.variables[i] : i \in 1..Len(r.envVars.variables)})

\* the call of rank OpRank(op) as the body without password and user name
\* determines it
CallFor(op) ==
    CASE op = "createDeployment" ->
           [op |-> op, bearer |-> VERCEL_TOKEN, name |-> body.projectName,
            target |-> IF Has(body, "target") THEN body.target ELSE "production",
            gitSource |-> [type |-> "github",
                           repo |-> extractGitHubInfo(body.repositoryUrl).repo,
                           ref |-> IF Has(body, "branch") THEN body.branch ELSE "main",
                           org |-> extractGitHubInfo(body.repositoryUrl).org],
            alias |-> IF Has(body, "domainName") /\ body.domainName # ""
                      THEN <<body.domainName>> ELSE << >>]
      [] op = "addProjectDomain" ->
           [op |-> op, bearer |-> VERCEL_TOKEN, idOrName |-> body.projectName,
            name |-> body.domainName]
      [] op = "createProjectEnv" ->
           [op |-> op, bearer |-> VERCEL_TOKEN, idOrName |-> body.projectName,
            upsert |-> "true",
            requestBody |-> [i \in 1..Len(body.envVars) |->
                               [key |-> body.envVars[i].key,
                                value |-> body.envVars[i].value,
                                target |-> <<"production">>, type |-> "plain"]]]

\* C18: every external call carries the bearer credential of the process
\* configuration and is determined by the fields of the body other than
\* password and user name, and the password occurs nowhere in the calls or
\* in the response: requests that differ in their password only get the
\* same calls and the same response.
C18_PasswordNeverForwarded ==
    /\ \A i \in 1..Len(calls) :
          /\ calls[i].bearer = VERCEL_TOKEN
          /\ calls[i] = CallFor(calls[i].op)
    /\ (pc = "done" /\ ~response.success)
          => /\ response.details \in {<< >>, deploymentSchema([body EXCEPT !.password = ""])}
             /\ \A str \in ResponseStrings(response) :
                   Len(body.password) > 0 => ~Includes(str, body.password)
    /\ (pc = "done" /\ response.success)
          => \A str \in SuccessStrings(response) :
                Len(body.password) > 0 => ~Includes(str, body.password)

\* a request with a password has ended after more than one call
C18_Witness ==
    /\ pc = "done"
    /\ Has(body, "password")
    /\ body.password = "secret1"
    /\ response.success
    /\ Len(calls) >= 2

\* the form as the reset timer leaves it
ResetState ==
    /\ formData = InitialForm
    /\ submitStatus = "idle"
    /\ statusMessage = ""
    /\ deploymentResult = Null

\* C19: a reset timer is set only by a response reporting success (never by
\* a failed submission), a timer that is set is followed by a firing, and a
\* firing leaves the initial form, submit status idle and no deployment result.
C19_ResetAfterSuccess ==
    /\ (timers > 0) ~> ResetState
    /\ [][timers' > timers
            => /\ submitStatus' = "success"
               /\ deploymentResult' # Null
               /\ Len(inflight') < Len(inflight)]_vars
    /\ [][timers' < timers => ResetState']_vars

\* the timer of a success has fired on a form the user had filled
C19_Witness ==
    /\ swal = "Deployment Created!"
    /\ timers = 0
    /\ ResetState

\* a step is a submit attempt that the validator rejects
Rejected ==
    /\ statusMessage' = "Please fix the errors above and try again."
    /\ statusMessage' # statusMessage

\* C20: a deployment result is stored only by a response reporting success,
\* and every submit attempt, a rejected one included, and every firing of
\* the reset timer discards it.
C20_ResultLifetime ==
    /\ [][(deploymentResult' # Null /\ deploymentResult' # deploymentResult)
            => /\ submitStatus' = "success"
               /\ Len(inflight') < Len(inflight)]_vars
    /\ [][timers' < timers => deploymentResult' = Null]_vars
    /\ [][(Submits \/ Rejected) => deploymentResult' = Null]_vars

\* the failure kind the catch block of POST chose for the response r
ServerKind(r) ==
    IF r.status \in {401, 403} THEN "authentication"
    ELSE IF r.status = 404 \/ r.error = "Repository not found or branch does not exist"
    THEN "repository"
    ELSE IF r.message = "Project configuration error. Please check your repository setup."
    THEN "configuration"
    ELSE "generic"

TitleOf(kind) ==
    CASE kind = "authentication" -> "Authentication Error"
      [] kind = "repository" -> "Repository Error"
      [] kind = "configuration" -> "Project Configuration Error"
      [] kind = "generic" -> "Deployment Failed"

\* POST has returned a failure without details
GatewayFailure == pc = "done" /\ ~response.success /\ response.details = << >>

\* C21: for every failure response without details that POST returns, the
\* title the form gives its dialog is the one of the kind POST chose.
C21_TitleMatchesClassification ==
    GatewayFailure => DialogTitle(response) = TitleOf(ServerKind(response))

\* C22: a call to /api/deploy is issued only by a submit of the user, one
\* call per submit, and while a failure is shown no call is outstanding: a
\* failed submission is not issued again.
C22_NothingRetried ==
    /\ [](submitStatus = "error" => (inflight = << >> /\ ~isSubmitting))
    /\ [][Len(inflight') > Len(inflight)
            => /\ inflight' = Append(inflight, FormBody(formData))
               /\ ~isSubmitting
               /\ isSubmitting'
               /\ submitStatus' = "idle"
               /\ UNCHANGED <<formData, swal, timers>>]_vars

\* a submission has failed at the transport and nothing is outstanding
C22_Witness ==
    /\ swal = "Network Error"
    /\ submitStatus = "error"
    /\ inflight = << >>
    /\ ~isSubmitting
    /\ isFormValid

\* the step in which the network-error dialog replaces what was shown before
NetworkFailure ==
    /\ Len(inflight') < Len(inflight)
    /\ swal' = "Network Error"
    /\ swal # "Network Error"

\* C23: when the call fails without a response, the submission ends with the
\* error status and the network-error dialog, isSubmitting is cleared, the
\* form, the errors and the (null) deployment result stay as they were and
\* no reset timer is scheduled.
C23_NetworkFailure ==
    [][NetworkFailure
         => /\ submitStatus' = "error"
            /\ ~isSubmitting'
            /\ formData' = formData
            /\ errors' = errors
            /\ deploymentResult = Null
            /\ deploymentResult' = Null
            /\ statusMessage' = statusMessage
            /\ timers' = timers]_vars

\* a network failure has ended a submission of a filled form
C23_Witness ==
    /\ swal = "Network Error"
    /\ submitStatus = "error"
    /\ ~isSubmitting
    /\ deploymentResult = Null
    /\ formData.repositoryUrl # ""
    /\ timers = 0

\* C24: a submit attempt, accepted or rejected, leaves as the error mapping
\* exactly what validateForm reports for the current form; nothing of the
\* mapping it found is kept.
C24_ErrorsRecomputedOnSubmit ==
    [][(Submits \/ Rejected) => errors' = validateForm(formData)]_vars

\* a rejected attempt has just set the validator's errors
C24_Witness ==
    /\ statusMessage = "Please fix the errors above and try again."
    /\ submitStatus = "error"
    /\ DOMAIN errors # {}
    /\ errors = validateForm(formData)

\* the step in which a response with details is handled: the only step that
\* ends a call and changes the error mapping
DetailsStep == Len(inflight') < Len(inflight) /\ errors' # errors

\* the fields whose edit removes their entry of the error mapping
ClearableFields == TextFields

C26_ResetOnlyOwnSubmission ==
    [][timers' < timers
         => /\ (deploymentResult = Null => formData' = formData)
            /\ (isSubmitting => UNCHANGED <<formData, submitStatus, statusMessage>>)
            /\ (timers' > 0 => deploymentResult' = deploymentResult)]_vars

\* C27: while a submission is in flight the form does not change, so that
\* when the response is handled the form is the one that was sent.
C27_FormFrozenInFlight ==
    /\ [][isSubmitting => formData' = formData]_vars
    /\ [](isSubmitting => \E i \in 1..Len(inflight) : inflight[i] = FormBody(formData))

\* C28: in every reachable state in which a submission is in flight the
\* submit status is idle, no deployment result is stored and the error
\* mapping is empty.
C28_InFlightState ==
    isSubmitting
        => /\ submitStatus = "idle"
           /\ deploymentResult = Null
           /\ DOMAIN errors = {}

\* a call is in flight while the reset timer of an earlier success is pending
C28_Witness ==
    /\ isSubmitting
    /\ inflight # << >>
    /\ timers > 0

\* C29: on a transport whose calls settle, every submission that started a
\* call ends: isSubmitting is cleared, whatever the outcome of the call, and
\* at that moment the submit button is enabled again.
C29_SubmissionEnds ==
    /\ isSubmitting ~> ~isSubmitting
    /\ [][(isSubmitting /\ ~isSubmitting') => (inflight' = << >> /\ SubmitEnabled')]_vars

\* the request ran into one of the failures that end it: a failed
\* create-deployment when that call has settled, else what Receive checks
RequestFailed ==
    IF outcomes # << >>
    THEN outcomes[1].result = "error"
    ELSE \/ ~body.json
         \/ deploymentSchema(body) # << >>
         \/ ~extractGitHubInfo(body.repositoryUrl).ok

\* C30: every request gets one response: after Receive (which has no guard
\* and either answers or issues create-deployment) the request goes on until
\* it has a response, and nothing happens after it.  The response has a
\* boolean success field and status 200 exactly when success is true: a
\* request that ran into an unparseable body, a schema violation, a malformed
\* repository path or a failed or unreadable create-deployment answer gets
\* success false with a 4xx or 5xx status, and a failed add-domain or env-var
\* call leaves the status at 200.
C30_OneResponseStatusMatchesSuccess ==
    /\ pc # "done" => response = Null
    /\ pc \in {"create", "domain", "env"} => ENABLED ServerNext
    /\ pc = "done"
         => /\ response # Null
            /\ ~ENABLED ServerNext
            /\ response.success \in BOOLEAN
            /\ (response.status = 200) <=> response.success
            /\ RequestFailed <=> ~response.success
            /\ ~response.success => response.status \in 400..599

\* a request has ended with status 200 although its domain or env-var call
\* failed, or has ended with a failure status after a failed create-deployment
C30_Witness ==
    /\ pc = "done"
    /\ \/ /\ response.status = 200
          /\ Len(outcomes) > 1
          /\ outcomes[Len(outcomes)].result = "error"
       \/ /\ response.status = 500
          /\ Len(outcomes) = 1
          /\ ~response.success

====
